---- MODULE Spec2Model ----
(***************************************************************************)
(* Conditional HTTP middleware (package handler): entity-tags, the match   *)
(* hook of IfNoneMatchIfModifiedSinceHandler, and the deferring/buffering  *)
(* responseWriter that headerHandler puts between a downstream handler and *)
(* the underlying http.ResponseWriter.                                     *)
(*                                                                         *)
(* Go strings are sequences of one-character strings; the empty sequence   *)
(* is "" (which is also what Header.Get returns for an absent header).     *)
(***************************************************************************)
EXTENDS Integers, Sequences, FiniteSets, TLC

\* ------------------------------------------------------------------ bounds
MaxTagLen == 3      \* longest quoted part of an entity-tag header value
MaxInstant == 2     \* number of distinct instants a date header can name
MaxOps == 3         \* calls the downstream handler makes on its writer
MaxNest == 2        \* invocations in which a hook writes to its view

\* --------------------------------------------------------------- constants
StatusOK == 200
StatusCreated == 201
StatusNoContent == 204
StatusNotModified == 304
MinStatusCode == 100

DQ == "\""

BeforeHeaders == 0
AfterHeaders == 1
AfterResponse == 2

\* ----------------------------------------------------------------- strings
EmptyString == << >>

HasPrefix(s, p) == Len(s) >= Len(p) /\ SubSeq(s, 1, Len(p)) = p

HasSuffix(s, p) == Len(s) >= Len(p) /\ SubSeq(s, Len(s) - Len(p) + 1, Len(s)) = p

\* Go's s[lo:hi] on a string: a run-time panic unless 0 <= lo <= hi <= len(s).
SliceInRange(s, lo, hi) == 0 <= lo /\ lo <= hi /\ hi <= Len(s)

Slice(s, lo, hi) == SubSeq(s, lo + 1, hi)

RECURSIVE StringsUpTo(_, _)
StringsUpTo(alphabet, n) ==
    IF n = 0 THEN {EmptyString}
    ELSE LET shorter == StringsUpTo(alphabet, n - 1)
         IN  shorter \cup {Append(s, c) : s \in shorter, c \in alphabet}

\* ------------------------------------------------------------- entity-tags
ZeroETag == [Tag |-> EmptyString, Weak |-> FALSE]

\* eTagFromString: the result is (e, ok), or the call panics in s[1 : len(s)-1].
eTagFromString(s0) ==
    LET weak == HasPrefix(s0, <<"W", "/">>)
        s == IF weak THEN Slice(s0, 2, Len(s0)) ELSE s0
    IN  IF ~HasPrefix(s, <<DQ>>) \/ ~HasSuffix(s, <<DQ>>)
        THEN [panic |-> FALSE, ok |-> FALSE, e |-> ZeroETag]
        ELSE IF ~SliceInRange(s, 1, Len(s) - 1)
             THEN [panic |-> TRUE, ok |-> FALSE, e |-> ZeroETag]
             ELSE [panic |-> FALSE, ok |-> TRUE,
                   e |-> [Tag |-> Slice(s, 1, Len(s) - 1), Weak |-> weak]]

String_NoWeakPrefix(e) ==
    IF ~HasPrefix(e.Tag, <<DQ>>) /\ ~HasSuffix(e.Tag, <<DQ>>)
    THEN <<DQ>> \o e.Tag \o <<DQ>> ELSE e.Tag

\* ETag.String
String(e) ==
    LET t == e.Tag
        q == IF ~HasPrefix(t, <<DQ>>) /\ ~HasSuffix(t, <<DQ>>)
             THEN <<DQ>> \o t \o <<DQ>> ELSE t
    IN  IF e.Weak THEN <<"W", "/">> \o q ELSE q

equal_OneSided(e, e2, weakComparison) ==
    IF ~weakComparison /\ e.Weak THEN FALSE ELSE e.Tag = e2.Tag

\* ETag.equal
equal(e, e2, weakComparison) ==
    IF ~weakComparison /\ (e.Weak \/ e2.Weak) THEN FALSE ELSE e.Tag = e2.Tag

\* ------------------------------------------------------------ date headers
\* An RFC 1123 date header "Mon, 02 Jan 2006 15:04:05 MST" is the sequence
\* <<weekday, date-and-time, zone>>.  time.Parse does not check the weekday
\* against the date, and a zone abbreviation it cannot resolve gets offset 0,
\* so several strings denote the same instant.
Weekdays == {"Mon"}
Zones == {"GMT", "UTC"}
DateTimes == <<"02 Jan 2006 15:04:05", "02 Jan 2006 15:04:06",
               "02 Jan 2006 15:04:07", "02 Jan 2006 15:04:08">>

InstantOf(dt) == CHOOSE i \in 1..Len(DateTimes) : DateTimes[i] = dt

IsDateTime(dt) == \E i \in 1..Len(DateTimes) : DateTimes[i] = dt

\* t.In(loc).Format(time.RFC1123) with loc the GMT location
FormatRFC1123(t) == <<"Mon", DateTimes[t], "GMT">>

ParseRFC1123(s) ==
    IF Len(s) = 3 /\ s[1] \in Weekdays /\ IsDateTime(s[2]) /\ s[3] \in Zones
    THEN [err |-> FALSE, t |-> InstantOf(s[2])]
    ELSE [err |-> TRUE, t |-> 0]

\* ---------------------------------------------------------- the match hook
\* hook results: [panic, code]
Returns(code) == [panic |-> FALSE, code |-> code]
Panics == [panic |-> TRUE, code |-> 0]

\* tryMatchETag: (statusCode, ok), or a panic propagated from eTagFromString
tryMatchETag(wHeader, rHeader, weakETagComparison, statusCode) ==
    LET inm == rHeader["If-None-Match"]
        eTag == wHeader["ETag"]
        inmE == eTagFromString(inm)
        e == eTagFromString(eTag)
    IN  IF inm = EmptyString THEN [panic |-> FALSE, ok |-> FALSE, code |-> 0]
        ELSE IF eTag = EmptyString THEN [panic |-> FALSE, ok |-> TRUE, code |-> statusCode]
        ELSE IF inmE.panic THEN [panic |-> TRUE, ok |-> FALSE, code |-> 0]
        ELSE IF ~inmE.ok THEN [panic |-> FALSE, ok |-> TRUE, code |-> statusCode]
        ELSE IF e.panic THEN [panic |-> TRUE, ok |-> FALSE, code |-> 0]
        ELSE IF ~e.ok THEN [panic |-> FALSE, ok |-> TRUE, code |-> statusCode]
        ELSE IF equal(inmE.e, e.e, weakETagComparison)
             THEN [panic |-> FALSE, ok |-> TRUE, code |-> StatusNotModified]
             ELSE [panic |-> FALSE, ok |-> TRUE, code |-> statusCode]

tryMatchLastModified_BeforeOnly(wHeader, rHeader, statusCode) ==
    LET ims == rHeader["If-Modified-Since"]
        lm == wHeader["Last-Modified"]
        imsT == ParseRFC1123(ims)
        lmT == ParseRFC1123(lm)
    IN  IF ims = EmptyString \/ lm = EmptyString THEN statusCode
        ELSE IF ims = lm THEN StatusNotModified
        ELSE IF imsT.err THEN statusCode
        ELSE IF lmT.err THEN statusCode
        ELSE IF lmT.t < imsT.t THEN StatusNotModified
        ELSE statusCode

tryMatchLastModified(wHeader, rHeader, statusCode) ==
    LET ims == rHeader["If-Modified-Since"]
        lm == wHeader["Last-Modified"]
        imsT == ParseRFC1123(ims)
        lmT == ParseRFC1123(lm)
    IN  IF ims = EmptyString \/ lm = EmptyString THEN statusCode
        ELSE IF ims = lm THEN StatusNotModified
        ELSE IF imsT.err THEN statusCode
        ELSE IF lmT.err THEN statusCode
        ELSE IF lmT.t < imsT.t \/ lmT.t = imsT.t THEN StatusNotModified
        ELSE statusCode

IfNoneMatchIfModifiedSinceHandler_OKWhenNoMatch(wHeader, rHeader, weakETagComparison, statusCode) ==
    LET m == tryMatchETag(wHeader, rHeader, weakETagComparison, statusCode)
        lm == tryMatchLastModified(wHeader, rHeader, statusCode)
    IN  IF m.panic THEN Panics
        ELSE IF m.ok THEN Returns(m.code)
        ELSE Returns(IF lm = StatusNotModified THEN lm ELSE StatusOK)

\* the hook IfNoneMatchIfModifiedSinceHandler hands to headerHandler
IfNoneMatchIfModifiedSinceHandler(wHeader, rHeader, weakETagComparison, statusCode) ==
    LET m == tryMatchETag(wHeader, rHeader, weakETagComparison, statusCode)
    IN  IF m.panic THEN Panics
        ELSE IF m.ok THEN Returns(m.code)
        ELSE Returns(tryMatchLastModified(wHeader, rHeader, statusCode))


\* ------------------------------------------------- state of one request
VARIABLES
    rm,                  \* headerHandler's ResponseMode
    f,                   \* headerHandler's hook: "generic" or "match"
    weakETagComparison,  \* argument of IfNoneMatchIfModifiedSinceHandler
    r,                   \* the request: [Header]
    pc,                  \* "start", "next" (downstream running), "done", "panicked"
    rw,                  \* the responseWriter headerHandler creates
    w,                   \* the underlying writer: [header, calls, body]
    log,                 \* calls in the order they completed
    hookLog,             \* what each invocation of the hook was given and returned
    nextBytes,           \* all bytes the downstream handler has passed to Write
    nextHeader,          \* the headers the downstream handler has set
    recorded,            \* last status the downstream recorded before the hook ran
    nops,                \* number of calls the downstream handler has made
    nextCodes,           \* the status codes next has passed to WriteHeader, in order
    nwrites,             \* number of Write calls next has made
    call,                \* inputs of a direct application of the match hook
    result,              \* its outcome, or NoResult
    et,                  \* inputs and results of direct uses of ETag's functions
    chain                \* the inner handler of a chain: its responseWriter, its ETagFunc

vars == <<rm, f, weakETagComparison, r, pc, rw, w, log, hookLog, nextBytes,
          nextHeader, recorded, nops, nextCodes, nwrites, call, result, et, chain>>

\* ------------------------------------------------------------ input sets
Bytes == {1, 2}
\* what next passes to Write: an empty slice or one byte
Chunks == {<< >>} \cup {<<b>> : b \in Bytes}
\* what next passes to WriteHeader; the last one is below the valid range
NextStatusCodes == {StatusNoContent, StatusCreated, MinStatusCode - 1}

ReqKeys == {"If-None-Match", "If-Modified-Since"}
RespKeys == {"ETag", "Last-Modified"}
NoHeaders(keys) == [k \in keys |-> EmptyString]

\* entity-tag header values: an optional W/ and up to MaxTagLen characters
ETagStrings ==
    {p \o b : p \in {EmptyString, <<"W", "/">>}, b \in StringsUpTo({DQ, "a"}, MaxTagLen)}

DateStrings ==
    {<<wd, DateTimes[i], z>> : wd \in Weekdays, i \in 1..MaxInstant, z \in Zones}
        \cup {EmptyString, <<"b", "a", "d">>}

\* the values the interceptor runs are made with
SomeETags == {<<DQ, "a", DQ>>, <<"W", "/", DQ, "a", DQ>>, <<DQ>>}
SomeDates == {<<"Mon", DateTimes[1], "GMT">>, <<"Mon", DateTimes[2], "GMT">>}

\* ------------------------------------------------------- responseWriter
\* a nil []byte
NilBuf == [nil |-> TRUE, bytes |-> << >>]

\* a nil *bytes.Buffer.  Of a buffer, alloc says that its internal slice is
\* not nil: the zero Buffer has a nil slice, and Write allocates one only when
\* it is given at least one byte
NoBuffer == [nil |-> TRUE, alloc |-> FALSE, bytes |-> << >>]

ZeroRW == [statusCode |-> 0, bodyBuf |-> NoBuffer, beforeWriteHeader |-> FALSE,
           bufferBody |-> FALSE, headerWritten |-> FALSE]

Event(ev, code, bytes) == [ev |-> ev, code |-> code, bytes |-> bytes]

\* http.ResponseWriter.WriteHeader / Write of the underlying writer
UnderlyingWriteHeader(s, statusCode) ==
    [s EXCEPT !.w.calls = Append(@, statusCode),
              !.log = Append(@, Event("WriteHeader", statusCode, << >>))]

\* w.body is what the writer was handed; a failing writer reports an error
UnderlyingWrite(s, b) ==
    [s EXCEPT !.w.body = @ \o b,
              !.w.errs = IF s.w.failing THEN @ + 1 ELSE @,
              !.log = Append(@, Event("Write", 0, b))]

\* responseWriter.Header
Header(s) == s.w.header

Body_Nil(s, isRW) == NilBuf

Body_NoNilCheck(s, isRW) ==
    IF ~isRW THEN NilBuf ELSE [nil |-> FALSE, bytes |-> s.rw.bodyBuf.bytes]

\* Body(w): nil unless w is a responseWriter with a buffer; bodyBuf.Bytes() is
\* the buffer's internal slice, which is nil until a byte has been written
Body(s, isRW) ==
    IF ~isRW \/ s.rw.bodyBuf.nil THEN NilBuf
    ELSE [nil |-> ~s.rw.bodyBuf.alloc, bytes |-> s.rw.bodyBuf.bytes]

\* the two hooks of the header handler tests: return statusCode, or 201
GenericHook(statusCode, override) ==
    Returns(IF override THEN StatusCreated ELSE statusCode)

\* what a hook call does: its result, and the response headers it leaves
Effect(h, header) == [panic |-> h.panic, code |-> h.code, header |-> header]

ETagHandler_SetAlways(wHeader, statusCode, p) ==
    Effect(Returns(statusCode), [wHeader EXCEPT !["ETag"] = String(p.e)])

\* the hook of ETagHandler; p is what the ETagFunc returns: [e, ok]
ETagHandler(wHeader, statusCode, p) ==
    IF ~p.ok THEN Effect(Returns(statusCode), wHeader)
    ELSE Effect(Returns(statusCode), [wHeader EXCEPT !["ETag"] = String(p.e)])

\* the hook of LastModifiedHandler; p is what the LastModifiedFunc returns: [lm, ok]
LastModifiedHandler(wHeader, statusCode, p) ==
    IF ~p.ok THEN Effect(Returns(statusCode), wHeader)
    ELSE Effect(Returns(statusCode),
                [wHeader EXCEPT !["Last-Modified"] = FormatRFC1123(p.lm)])

\* what the caller-supplied part of the hook may do: the generic hook overrides
\* the status or not, an ETagFunc or LastModifiedFunc returns a value or declines
Choices ==
    IF f = "generic" THEN BOOLEAN
    ELSE IF f = "etag"
         THEN {[ok |-> FALSE, e |-> ZeroETag]}
                \cup {[ok |-> TRUE, e |-> [Tag |-> <<"a">>, Weak |-> wk]] : wk \in BOOLEAN}
    ELSE IF f = "lastmod"
         THEN {[ok |-> FALSE, lm |-> 0], [ok |-> TRUE, lm |-> 1]}
    ELSE {FALSE}

\* the hook headerHandler was given, applied to the view, r and statusCode
HookOutcome(s, statusCode, override) ==
    IF f = "match"
    THEN Effect(IfNoneMatchIfModifiedSinceHandler(Header(s), r.Header,
                                                  weakETagComparison, statusCode),
                Header(s))
    ELSE IF f = "etag" THEN ETagHandler(Header(s), statusCode, override)
    ELSE IF f = "lastmod" THEN LastModifiedHandler(Header(s), statusCode, override)
    ELSE Effect(GenericHook(statusCode, override), Header(s))

\* the invocation with outcome h, as recorded in hookLog and log; the view the
\* hook (and through it the ETagFunc or LastModifiedFunc) is given is the
\* responseWriter, or in BeforeHeaders mode the underlying writer
Hooked(s, isRW, statusCode, h, override) ==
    [s EXCEPT !.hookLog = Append(@, [arg |-> statusCode,
                                     out |-> [panic |-> h.panic, code |-> h.code],
                                     isRW |-> isRW,
                                     view |-> IF isRW THEN "rw" ELSE "w",
                                     by |-> override,
                                     body |-> Body(s, isRW), header |-> Header(s),
                                     after |-> h.header,
                                     committed |-> Len(s.w.calls), sent |-> s.w.body]),
              !.w.header = h.header,
              !.log = Append(@, Event(IF h.panic THEN "hookPanic" ELSE "hook",
                                      h.code, << >>)),
              !.panicked = h.panic]

\* f(view, r, statusCode)
CallHook(s, isRW, statusCode, override) ==
    Hooked(s, isRW, statusCode, HookOutcome(s, statusCode, override), override)

OrStatusOK_Raw(statusCode) == statusCode

\* statusCode := w.statusCode; if statusCode < 100 { statusCode = http.StatusOK }
OrStatusOK(statusCode) == IF statusCode < MinStatusCode THEN StatusOK ELSE statusCode

\* w.w.WriteHeader(statusCode), then the deferred w.headerWritten = true
Commit(s, statusCode) ==
    [UnderlyingWriteHeader(s, statusCode) EXCEPT !.rw.headerWritten = TRUE]

\* after the hook call left s1: the deferred w.beforeWriteHeader = nil runs
\* whether the hook returned or panicked; a panic skips the rest
AfterHook(s1) ==
    IF s1.panicked THEN [s1 EXCEPT !.rw.beforeWriteHeader = FALSE]
    ELSE Commit([s1 EXCEPT !.rw.beforeWriteHeader = FALSE],
                s1.hookLog[Len(s1.hookLog)].out.code)

writeHeader_NoGuard(s, override) ==
    IF s.rw.beforeWriteHeader
    THEN AfterHook(CallHook(s, TRUE, OrStatusOK(s.rw.statusCode), override))
    ELSE Commit(s, OrStatusOK(s.rw.statusCode))

\* responseWriter.writeHeader
writeHeader(s, override) ==
    IF s.rw.headerWritten THEN s
    ELSE IF s.rw.beforeWriteHeader
         THEN AfterHook(CallHook(s, TRUE, OrStatusOK(s.rw.statusCode), override))
         ELSE Commit(s, OrStatusOK(s.rw.statusCode))

\* w.bodyBuf.Write(b), on a buffer created when nil
Buffer(s, b) ==
    [s EXCEPT !.rw.bodyBuf =
        [nil |-> FALSE, alloc |-> (@.alloc \/ Len(b) > 0),
         bytes |-> (IF @.nil THEN << >> ELSE @.bytes) \o b]]

\* w.w.Write(b) after writeHeader left s1, unless the hook panicked
Forward(s1, b) == IF s1.panicked THEN s1 ELSE UnderlyingWrite(s1, b)

Write_Buffered(s, b, override) ==
    IF s.rw.bufferBody THEN Buffer(s, b)
    ELSE Buffer(writeHeader(s, override), b)

\* responseWriter.Write
Write(s, b, override) ==
    IF s.rw.bufferBody THEN Buffer(s, b)
    ELSE Forward(writeHeader(s, override), b)

\* responseWriter.WriteHeader
WriteHeader(s, statusCode) == [s EXCEPT !.rw.statusCode = statusCode]

Copy_Surface(s1) ==
    IF s1.panicked THEN s1
    ELSE [(IF Len(s1.rw.bodyBuf.bytes) > 0
           THEN UnderlyingWrite(s1, s1.rw.bodyBuf.bytes) ELSE s1)
             EXCEPT !.rw.bodyBuf.bytes = << >>,
                    !.panicked = (s1.w.failing /\ Len(s1.rw.bodyBuf.bytes) > 0)]

\* _, _ = io.Copy(w.w, w.bodyBuf) after writeHeader left s1: the buffer is
\* drained with one Write, and with none when it is empty; the error io.Copy
\* returns is assigned to the blank identifier
Copy(s1) ==
    IF s1.panicked THEN s1
    ELSE [(IF Len(s1.rw.bodyBuf.bytes) > 0
           THEN UnderlyingWrite(s1, s1.rw.bodyBuf.bytes) ELSE s1)
             EXCEPT !.rw.bodyBuf.bytes = << >>]

\* responseWriter.flush
flush(s, override) ==
    IF s.rw.bodyBuf.nil THEN s ELSE Copy(writeHeader(s, override))

BeforeNext_UseReturn(s, override) ==
    AfterHook(CallHook(s, FALSE, 0, override))

\* headerHandler in BeforeHeaders mode: f(w, r, 0), its result dropped
BeforeNext(s, override) == CallHook(s, FALSE, 0, override)

\* ---------------------------------------------------------------- actions
Cur == [rw |-> rw, w |-> w, log |-> log, hookLog |-> hookLog, panicked |-> FALSE]

Install(s) ==
    /\ rw' = s.rw
    /\ w' = s.w
    /\ log' = s.log
    /\ hookLog' = s.hookLog

NoCall == [inm |-> EmptyString, eTag |-> EmptyString, ims |-> EmptyString,
           lm |-> EmptyString, weak |-> FALSE, statusCode |-> 0]
NoResult == [panic |-> FALSE, code |-> 0]
NoParse == [panic |-> FALSE, ok |-> FALSE, e |-> ZeroETag]
NoET == [op |-> "none", e |-> ZeroETag, e2 |-> ZeroETag, weakComparison |-> FALSE,
         s |-> EmptyString, str |-> EmptyString, parsed |-> NoParse,
         eq |-> FALSE, eqRev |-> FALSE, eqSelf |-> FALSE]

\* no inner handler: headerHandler wraps next itself
NoChain == [rm |-> BeforeHeaders, rw |-> ZeroRW, p |-> [ok |-> FALSE, e |-> ZeroETag]]

Init ==
    /\ rm \in {BeforeHeaders, AfterHeaders, AfterResponse}
    /\ f \in {"generic", "match", "etag", "lastmod"}
    /\ f = "match" => rm = AfterHeaders
    /\ weakETagComparison \in BOOLEAN
    /\ f # "match" => ~weakETagComparison
    /\ r \in [Header : {[k \in ReqKeys |-> IF k = "If-None-Match" THEN inm ELSE ims] :
                             inm \in SomeETags \cup {EmptyString},
                             ims \in {EmptyString, <<"Mon", DateTimes[1], "GMT">>}}]
    /\ f # "match" => r.Header = NoHeaders(ReqKeys)
    /\ pc = "start"
    /\ rw = ZeroRW
    /\ w \in [header : {NoHeaders(RespKeys)}, calls : {<< >>}, body : {<< >>},
               failing : BOOLEAN, errs : {0}]
    /\ log = << >>
    /\ hookLog = << >>
    /\ nextBytes = << >>
    /\ nextHeader = NoHeaders(RespKeys)
    /\ recorded = 0
    /\ nops = 0
    /\ nextCodes = << >>
    /\ nwrites = 0
    /\ call = NoCall
    /\ result = NoResult
    /\ et = NoET
    /\ chain = NoChain

Frame == UNCHANGED <<rm, f, weakETagComparison, r, call, result, et, chain>>

\* headerHandler, up to the call of next.ServeHTTP
ServeHTTPBegin ==
    /\ pc = "start"
    /\ \E override \in Choices :
         IF rm = BeforeHeaders
         THEN Install(BeforeNext(Cur, override))
         ELSE Install([Cur EXCEPT !.rw = [ZeroRW EXCEPT !.bufferBody = (rm = AfterResponse),
                                                        !.beforeWriteHeader = TRUE]])
    /\ pc' = "next"
    /\ UNCHANGED <<nextBytes, nextHeader, recorded, nops, nextCodes, nwrites>>
    /\ Frame

\* next calls w.WriteHeader(statusCode)
NextWriteHeader ==
    /\ pc = "next"
    /\ nops < MaxOps
    /\ \E statusCode \in NextStatusCodes :
         /\ IF rm = BeforeHeaders
            THEN Install(UnderlyingWriteHeader(Cur, statusCode))
            ELSE Install(WriteHeader(Cur, statusCode))
         /\ recorded' = IF Len(w.calls) = 0 /\ Len(hookLog) = 0 THEN statusCode ELSE recorded
         /\ nextCodes' = Append(nextCodes, statusCode)
    /\ nops' = nops + 1
    /\ UNCHANGED <<pc, nextBytes, nextHeader, nwrites>>
    /\ Frame

\* next calls w.Write(b)
NextWrite ==
    /\ pc = "next"
    /\ nops < MaxOps
    /\ \E b \in Chunks, override \in Choices :
         \E s \in {IF rm = BeforeHeaders THEN UnderlyingWrite(Cur, b)
                   ELSE Write(Cur, b, override)} :
            /\ Install(s)
            /\ pc' = IF s.panicked THEN "panicked" ELSE "next"
            /\ nextBytes' = nextBytes \o b
    /\ nops' = nops + 1
    /\ nwrites' = nwrites + 1
    /\ UNCHANGED <<nextHeader, recorded, nextCodes>>
    /\ Frame

\* next calls w.Header().Set(k, v)
NextSetHeader ==
    /\ pc = "next"
    /\ nops < MaxOps
    /\ \E k \in RespKeys :
         \E v \in (IF k = "ETag" THEN SomeETags ELSE SomeDates) :
            /\ w' = [w EXCEPT !.header[k] = v]
            /\ nextHeader' = [nextHeader EXCEPT ![k] = v]
    /\ nops' = nops + 1
    /\ UNCHANGED <<pc, rw, log, hookLog, nextBytes, recorded, nextCodes, nwrites>>
    /\ Frame

\* next.ServeHTTP returns; headerHandler calls rw.flush() and returns
ServeHTTPEnd ==
    /\ pc = "next"
    /\ \E override \in Choices :
         \E s \in {IF rm = BeforeHeaders THEN Cur ELSE flush(Cur, override)} :
            /\ Install(s)
            /\ pc' = IF s.panicked THEN "panicked" ELSE "done"
    /\ UNCHANGED <<nextBytes, nextHeader, recorded, nops, nextCodes, nwrites>>
    /\ Frame

Next ==
    \/ ServeHTTPBegin
    \/ NextWriteHeader
    \/ NextWrite
    \/ NextSetHeader
    \/ ServeHTTPEnd

Spec == Init /\ [][Next]_vars

\* ------------------------------------ the match hook applied to bounded inputs
CallHeaderOfResponse == [k \in RespKeys |-> IF k = "ETag" THEN call.eTag ELSE call.lm]
CallHeaderOfRequest == [k \in ReqKeys |-> IF k = "If-None-Match" THEN call.inm ELSE call.ims]

InitMatch ==
    /\ call \in [inm : ETagStrings, eTag : ETagStrings, ims : DateStrings,
                  lm : DateStrings, weak : BOOLEAN,
                  statusCode : {StatusOK, StatusNoContent}]
    /\ result = NoResult
    /\ et = NoET
    /\ chain = NoChain
    /\ pc = "call"
    /\ rm = AfterHeaders
    /\ f = "match"
    /\ weakETagComparison = call.weak
    /\ r = [Header |-> CallHeaderOfRequest]
    /\ rw = ZeroRW
    /\ w = [header |-> CallHeaderOfResponse, calls |-> << >>, body |-> << >>,
            failing |-> FALSE, errs |-> 0]
    /\ log = << >>
    /\ hookLog = << >>
    /\ nextBytes = << >>
    /\ nextHeader = NoHeaders(RespKeys)
    /\ recorded = 0
    /\ nops = 0
    /\ nextCodes = << >>
    /\ nwrites = 0

\* the hook function of IfNoneMatchIfModifiedSinceHandler is called once
ApplyMatch ==
    /\ pc = "call"
    /\ result' = IfNoneMatchIfModifiedSinceHandler(w.header, r.Header,
                                                   weakETagComparison, call.statusCode)
    /\ pc' = "returned"
    /\ UNCHANGED <<rm, f, weakETagComparison, r, rw, w, log, hookLog, nextBytes,
                   nextHeader, recorded, nops, nextCodes, nwrites, call, et, chain>>

NextMatch == ApplyMatch

MatchSpec == InitMatch /\ [][NextMatch]_vars

\* ------------------------- a hook that calls Write on the view it is given
\* the hook has returned statusCode and left s2: w.w.WriteHeader(statusCode),
\* then the deferred w.headerWritten = true and w.beforeWriteHeader = nil
ReentrantReturn(s2, statusCode) ==
    Commit([s2 EXCEPT !.rw.beforeWriteHeader = FALSE], statusCode)

RECURSIVE ReentrantWrite(_, _, _, _)
RECURSIVE ReentrantWriteHeader(_, _, _)

\* the hook's body after its invocation was recorded in s1: it calls
\* w.Write(hb) on its view while it has writes left (n), and returns the
\* status it was given
ReentrantHook(s1, hb, n) ==
    IF n > 0 THEN ReentrantWrite(s1, hb, hb, n - 1) ELSE s1

\* responseWriter.writeHeader with that hook: neither flag is set before the
\* hook returns, both are set by deferred functions
ReentrantWriteHeader(s, hb, n) ==
    IF s.rw.headerWritten THEN s
    ELSE IF s.rw.beforeWriteHeader
         THEN ReentrantReturn(
                  ReentrantHook(Hooked(s, TRUE, OrStatusOK(s.rw.statusCode),
                                       Effect(Returns(OrStatusOK(s.rw.statusCode)), Header(s)),
                                       n),
                                hb, n),
                  OrStatusOK(s.rw.statusCode))
         ELSE Commit(s, OrStatusOK(s.rw.statusCode))

\* responseWriter.Write with that hook
ReentrantWrite(s, b, hb, n) ==
    IF s.rw.bufferBody THEN Buffer(s, b)
    ELSE Forward(ReentrantWriteHeader(s, hb, n), b)

InitReentrant ==
    /\ rm = AfterHeaders
    /\ f = "writer"
    /\ weakETagComparison = FALSE
    /\ r = [Header |-> NoHeaders(ReqKeys)]
    /\ pc = "start"
    /\ rw = ZeroRW
    /\ w = [header |-> NoHeaders(RespKeys), calls |-> << >>, body |-> << >>,
            failing |-> FALSE, errs |-> 0]
    /\ log = << >>
    /\ hookLog = << >>
    /\ nextBytes = << >>
    /\ nextHeader = NoHeaders(RespKeys)
    /\ recorded = 0
    /\ nops = 0
    /\ nextCodes = << >>
    /\ nwrites = 0
    /\ call = NoCall
    /\ result = NoResult
    /\ et = NoET
    /\ chain = NoChain

\* next calls w.Write(b); the hook, when this call invokes it, writes hb to
\* its view in each of its first n invocations
ReentrantNextWrite ==
    /\ pc = "next"
    /\ nops < MaxOps
    /\ \E b \in Chunks, hb \in Chunks, n \in 0..MaxNest :
         /\ Install(ReentrantWrite(Cur, b, hb, n))
         /\ nextBytes' = nextBytes \o b
    /\ nops' = nops + 1
    /\ nwrites' = nwrites + 1
    /\ UNCHANGED <<pc, nextHeader, recorded, nextCodes>>
    /\ Frame

NextReentrant ==
    \/ ServeHTTPBegin
    \/ NextWriteHeader
    \/ ReentrantNextWrite
    \/ NextSetHeader
    \/ ServeHTTPEnd

ReentrantSpec == InitReentrant /\ [][NextReentrant]_vars

\* ------ the match handler around an ETagHandler around next (README, Usage)
\* what the ETagFunc of the inner handler returns, the same on every call
ETagFuncResults ==
    {[ok |-> FALSE, e |-> ZeroETag]}
        \cup {[ok |-> TRUE, e |-> [Tag |-> <<"a">>, Weak |-> wk]] : wk \in BOOLEAN}

\* the state with the inner handler's responseWriter, whose w is the match
\* handler's responseWriter rw
ChainCur ==
    [rw |-> rw, w |-> w, log |-> log, hookLog |-> hookLog, panicked |-> FALSE,
     inner |-> chain.rw]

\* Body(w) of the inner responseWriter
InnerBody(s) ==
    IF s.inner.bodyBuf.nil THEN NilBuf
    ELSE [nil |-> ~s.inner.bodyBuf.alloc, bytes |-> s.inner.bodyBuf.bytes]

\* the ETagHandler hook called with the inner responseWriter as its view and
\* outcome h; Header passes through both responseWriters
InnerHooked(s, statusCode, h, p) ==
    [s EXCEPT !.hookLog = Append(@, [arg |-> statusCode,
                                     out |-> [panic |-> h.panic, code |-> h.code],
                                     isRW |-> TRUE,
                                     view |-> "inner",
                                     by |-> p,
                                     body |-> InnerBody(s), header |-> Header(s),
                                     after |-> h.header,
                                     committed |-> Len(s.w.calls), sent |-> s.w.body]),
              !.w.header = h.header,
              !.log = Append(@, Event("innerHook", h.code, << >>))]

\* w.w.WriteHeader(statusCode) of the inner responseWriter is WriteHeader of
\* the match handler's; then the deferred assignments
InnerCommit(s1, statusCode) ==
    [WriteHeader(s1, statusCode) EXCEPT !.inner.headerWritten = TRUE,
                                        !.inner.beforeWriteHeader = FALSE]

\* responseWriter.writeHeader of the inner responseWriter
InnerWriteHeader(s, p) ==
    IF s.inner.headerWritten THEN s
    ELSE IF s.inner.beforeWriteHeader
         THEN InnerCommit(InnerHooked(s, OrStatusOK(s.inner.statusCode),
                                      ETagHandler(Header(s), OrStatusOK(s.inner.statusCode), p),
                                      p),
                          OrStatusOK(s.inner.statusCode))
         ELSE InnerCommit(s, OrStatusOK(s.inner.statusCode))

\* w.bodyBuf.Write(b) of the inner responseWriter
InnerBuffer(s, b) ==
    [s EXCEPT !.inner.bodyBuf =
        [nil |-> FALSE, alloc |-> (@.alloc \/ Len(b) > 0),
         bytes |-> (IF @.nil THEN << >> ELSE @.bytes) \o b]]

\* responseWriter.Write of the inner responseWriter: w.w.Write is Write of the
\* match handler's
InnerWrite(s, b, p) ==
    IF s.inner.bufferBody THEN InnerBuffer(s, b)
    ELSE Write(InnerWriteHeader(s, p), b, FALSE)

\* io.Copy(w.w, w.bodyBuf) of the inner responseWriter after writeHeader left s1
InnerCopy(s1) ==
    [(IF Len(s1.inner.bodyBuf.bytes) > 0
      THEN Write(s1, s1.inner.bodyBuf.bytes, FALSE) ELSE s1)
        EXCEPT !.inner.bodyBuf.bytes = << >>]

\* responseWriter.flush of the inner responseWriter
InnerFlush(s, p) ==
    IF s.inner.bodyBuf.nil THEN s ELSE InnerCopy(InnerWriteHeader(s, p))

\* the inner headerHandler has returned and left s1; a panic skips the match
\* handler's rw.flush()
OuterFlush(s1) == IF s1.panicked THEN s1 ELSE flush(s1, FALSE)

InitChain ==
    /\ rm = AfterHeaders
    /\ f = "match"
    /\ weakETagComparison \in BOOLEAN
    /\ r \in [Header : {[k \in ReqKeys |-> IF k = "If-None-Match" THEN inm ELSE EmptyString] :
                             inm \in SomeETags \cup {EmptyString}}]
    /\ chain \in [rm : {AfterHeaders, AfterResponse}, rw : {ZeroRW}, p : ETagFuncResults]
    /\ pc = "start"
    /\ rw = ZeroRW
    /\ w = [header |-> NoHeaders(RespKeys), calls |-> << >>, body |-> << >>,
            failing |-> FALSE, errs |-> 0]
    /\ log = << >>
    /\ hookLog = << >>
    /\ nextBytes = << >>
    /\ nextHeader = NoHeaders(RespKeys)
    /\ recorded = 0
    /\ nops = 0
    /\ nextCodes = << >>
    /\ nwrites = 0
    /\ call = NoCall
    /\ result = NoResult
    /\ et = NoET

ChainFrame == UNCHANGED <<rm, f, weakETagComparison, r, call, result, et>>

ChainInstall(s) ==
    /\ Install(s)
    /\ chain' = [chain EXCEPT !.rw = s.inner]

\* both headerHandlers construct their responseWriter; the inner next.ServeHTTP
\* begins
ChainBegin ==
    /\ pc = "start"
    /\ rw' = [ZeroRW EXCEPT !.bufferBody = (rm = AfterResponse),
                            !.beforeWriteHeader = TRUE]
    /\ chain' = [chain EXCEPT !.rw = [ZeroRW EXCEPT !.bufferBody = (chain.rm = AfterResponse),
                                                    !.beforeWriteHeader = TRUE]]
    /\ pc' = "next"
    /\ UNCHANGED <<w, log, hookLog, nextBytes, nextHeader, recorded, nops, nextCodes, nwrites>>
    /\ ChainFrame

\* next calls w.WriteHeader(statusCode) on the inner responseWriter
ChainNextWriteHeader ==
    /\ pc = "next"
    /\ nops < MaxOps
    /\ \E statusCode \in NextStatusCodes :
         /\ chain' = [chain EXCEPT !.rw.statusCode = statusCode]
         /\ recorded' = IF Len(hookLog) = 0 THEN statusCode ELSE recorded
         /\ nextCodes' = Append(nextCodes, statusCode)
    /\ nops' = nops + 1
    /\ UNCHANGED <<pc, rw, w, log, hookLog, nextBytes, nextHeader, nwrites>>
    /\ ChainFrame

\* next calls w.Write(b) on the inner responseWriter
ChainNextWrite ==
    /\ pc = "next"
    /\ nops < MaxOps
    /\ \E b \in Chunks :
         \E s \in {InnerWrite(ChainCur, b, chain.p)} :
            /\ ChainInstall(s)
            /\ pc' = IF s.panicked THEN "panicked" ELSE "next"
            /\ nextBytes' = nextBytes \o b
    /\ nops' = nops + 1
    /\ nwrites' = nwrites + 1
    /\ UNCHANGED <<nextHeader, recorded, nextCodes>>
    /\ ChainFrame

\* next returns; the inner headerHandler calls rw.flush() and returns, then
\* the match handler's headerHandler calls rw.flush() and returns
ChainEnd ==
    /\ pc = "next"
    /\ \E s \in {OuterFlush(InnerFlush(ChainCur, chain.p))} :
         /\ ChainInstall(s)
         /\ pc' = IF s.panicked THEN "panicked" ELSE "done"
    /\ UNCHANGED <<nextBytes, nextHeader, recorded, nops, nextCodes, nwrites>>
    /\ ChainFrame

NextChain ==
    \/ ChainBegin
    \/ ChainNextWriteHeader
    \/ ChainNextWrite
    \/ NextSetHeader
    \/ ChainEnd

ChainSpec == InitChain /\ [][NextChain]_vars

\* ------------------------------- ETag's functions applied to bounded inputs
TagChars == {DQ, "W", "/", "a"}
Tags == StringsUpTo(TagChars, MaxTagLen)
ETags == [Tag : Tags, Weak : BOOLEAN]
ComparedETags == [Tag : StringsUpTo({"a", "b"}, MaxTagLen), Weak : BOOLEAN]
ParsedStrings == StringsUpTo(TagChars, MaxTagLen + 2)

InitETag ==
    /\ et \in {[NoET EXCEPT !.op = "roundtrip", !.e = e] : e \in ETags}
          \cup {[NoET EXCEPT !.op = "parse", !.s = s] : s \in ParsedStrings}
          \cup {[NoET EXCEPT !.op = "equal", !.e = e, !.e2 = e2, !.weakComparison = wc] :
                   e \in ComparedETags, e2 \in ComparedETags, wc \in BOOLEAN}
    /\ pc = "call"
    /\ rm = BeforeHeaders
    /\ f = "etag"
    /\ weakETagComparison = FALSE
    /\ r = [Header |-> NoHeaders(ReqKeys)]
    /\ rw = ZeroRW
    /\ w = [header |-> NoHeaders(RespKeys), calls |-> << >>, body |-> << >>,
            failing |-> FALSE, errs |-> 0]
    /\ log = << >>
    /\ hookLog = << >>
    /\ nextBytes = << >>
    /\ nextHeader = NoHeaders(RespKeys)
    /\ recorded = 0
    /\ nops = 0
    /\ nextCodes = << >>
    /\ nwrites = 0
    /\ call = NoCall
    /\ result = NoResult
    /\ chain = NoChain

ETagFrame ==
    UNCHANGED <<rm, f, weakETagComparison, r, rw, w, log, hookLog, nextBytes,
                nextHeader, recorded, nops, nextCodes, nwrites, call, result, chain>>

\* e.String()
ETagString ==
    /\ pc = "call"
    /\ et.op = "roundtrip"
    /\ et' = [et EXCEPT !.str = String(et.e)]
    /\ pc' = "string"
    /\ ETagFrame

\* eTagFromString, of the string e.String() returned or of the input string
ETagFromString ==
    /\ \/ pc = "string" /\ et.op = "roundtrip"
       \/ pc = "call" /\ et.op = "parse"
    /\ et' = [et EXCEPT !.parsed =
                  eTagFromString(IF et.op = "roundtrip" THEN et.str ELSE et.s)]
    /\ pc' = "returned"
    /\ ETagFrame

\* e.equal(e2, weakComparison), e2.equal(e, weakComparison), e.equal(e, weakComparison)
ETagEqual ==
    /\ pc = "call"
    /\ et.op = "equal"
    /\ et' = [et EXCEPT !.eq = equal(et.e, et.e2, et.weakComparison),
                        !.eqRev = equal(et.e2, et.e, et.weakComparison),
                        !.eqSelf = equal(et.e, et.e, et.weakComparison)]
    /\ pc' = "returned"
    /\ ETagFrame

NextETag ==
    \/ ETagString
    \/ ETagFromString
    \/ ETagEqual

ETagSpec == InitETag /\ [][NextETag]_vars


\* ------------------------------------------------------------- properties
Intercepting == rm \in {AfterHeaders, AfterResponse}

Normalized(statusCode) == IF statusCode < MinStatusCode THEN StatusOK ELSE statusCode

Positions(ev) == {i \in 1..Len(log) : log[i].ev = ev}

\* C1: in AfterHeaders and AfterResponse modes the underlying writer's
\* WriteHeader is called at most once, and every such call comes after an
\* invocation of the hook that has returned; no hook invocation finds the
\* underlying writer already committed.
C1_CommitOnceAfterHook ==
    Intercepting =>
        /\ Len(w.calls) <= 1
        /\ \A i \in Positions("WriteHeader") : \E j \in Positions("hook") : j < i
        /\ \A k \in 1..Len(hookLog) : hookLog[k].committed = 0

C1_Witness ==
    /\ Intercepting
    /\ pc = "done"
    /\ Cardinality(Positions("Write")) >= 2
    /\ Len(w.calls) = 1
    /\ Positions("hook") = {1}

\* C2: in AfterHeaders and AfterResponse modes, when the wrapping handler has
\* returned the hook has been invoked exactly once, whatever the downstream
\* handler did (also when it never called Write).
C2_HookExactlyOnce ==
    (Intercepting /\ pc = "done") => Len(hookLog) = 1

\* C3: in AfterHeaders and AfterResponse modes, when the wrapping handler has
\* returned the underlying writer has been committed with exactly the status
\* the hook returned, and the hook was given the last status the downstream
\* recorded before the commit (200 if none).
C3_CommittedWithHookStatus ==
    (Intercepting /\ pc = "done") =>
        /\ Len(hookLog) = 1
        /\ hookLog[1].arg = Normalized(recorded)
        /\ w.calls = <<hookLog[1].out.code>>

\* C4: in AfterResponse mode nothing reaches the underlying writer while the
\* downstream handler runs; once the wrapping handler has returned the hook
\* has run, then the status it returned was committed, then the body was
\* written, and the underlying body is the concatenation of all downstream
\* writes.
C4_BufferedThenHookCommitBody ==
    /\ (rm = AfterResponse /\ pc = "next") => (w.calls = << >> /\ w.body = << >>)
    /\ (rm = AfterResponse /\ pc = "done") =>
          /\ Len(log) >= 2
          /\ log[1].ev = "hook"
          /\ log[2] = Event("WriteHeader", log[1].code, << >>)
          /\ \A i \in 3..Len(log) : log[i].ev = "Write"
          /\ w.body = nextBytes

\* C5: in AfterHeaders mode nothing is buffered, every Write that has returned
\* has been forwarded (the underlying body is exactly the downstream bytes in
\* order), and the first body write to the underlying writer comes after the
\* header commit, which comes after the hook.
C5_AfterHeadersPassThrough ==
    rm = AfterHeaders =>
        /\ rw.bodyBuf.nil
        /\ (pc \in {"next", "done"} => w.body = nextBytes)
        /\ \A i \in Positions("Write") :
              \E j \in Positions("WriteHeader") :
                 j < i /\ \E k \in Positions("hook") : k < j

C5_Witness ==
    /\ rm = AfterHeaders
    /\ pc = "done"
    /\ Len(nextBytes) >= 2
    /\ w.body = nextBytes
    /\ log[1].ev = "hook" /\ log[2].ev = "WriteHeader" /\ log[3].ev = "Write"

\* C6: in AfterResponse mode the hook, when it runs, gets from Body exactly
\* the concatenation of all bytes the downstream handler wrote, and from
\* Header every header the downstream handler set.
C6_HookSeesWholeBody ==
    rm = AfterResponse =>
        \A k \in 1..Len(hookLog) :
            /\ hookLog[k].body.bytes = nextBytes
            /\ hookLog[k].header = nextHeader

C6_Witness ==
    /\ rm = AfterResponse
    /\ Len(hookLog) = 1
    /\ Len(hookLog[1].body.bytes) >= 2
    /\ hookLog[1].header["ETag"] # EmptyString
    /\ hookLog[1].body.bytes = nextBytes

\* the match decision on entity-tags, from the results of eTagFromString
ETagsMatch ==
    /\ call.eTag # EmptyString
    /\ eTagFromString(call.inm).ok
    /\ eTagFromString(call.eTag).ok
    /\ equal(eTagFromString(call.inm).e, eTagFromString(call.eTag).e, call.weak)

\* C7: with an If-None-Match header the match hook returns 304 if the
\* response has an ETag, both parse and are equal under the configured
\* comparison, and otherwise returns the status unchanged, whatever the
\* If-Modified-Since and Last-Modified values are.
C7_IfNoneMatchDecides ==
    (pc = "returned" /\ call.inm # EmptyString) =>
        result = Returns(IF ETagsMatch THEN StatusNotModified ELSE call.statusCode)

DatesMatch ==
    /\ call.ims # EmptyString
    /\ call.lm # EmptyString
    /\ \/ call.ims = call.lm
       \/ /\ ~ParseRFC1123(call.ims).err
          /\ ~ParseRFC1123(call.lm).err
          /\ ParseRFC1123(call.lm).t <= ParseRFC1123(call.ims).t

ConsultedValidatorFailsToParse ==
    \/ /\ call.inm # EmptyString
       /\ call.eTag # EmptyString
       /\ \/ ~eTagFromString(call.inm).ok
          \/ ~eTagFromString(call.eTag).ok
    \/ /\ call.inm = EmptyString
       /\ call.ims # EmptyString
       /\ call.lm # EmptyString
       /\ call.ims # call.lm
       /\ \/ ParseRFC1123(call.ims).err
          \/ ParseRFC1123(call.lm).err

\* C9: whenever a validator the match hook consults fails to parse, the hook
\* does not return 304: it returns the original status.
C9_FailOpen ==
    (pc = "returned" /\ ConsultedValidatorFailsToParse) =>
        result = Returns(call.statusCode)

\* C10: when the match hook has overridden the status to 304, no body byte
\* has been written to the underlying writer.
C10_NoBodyOn304 ==
    (f = "match" /\ Intercepting /\ \E k \in 1..Len(hookLog) :
                       hookLog[k].out = Returns(StatusNotModified))
        => w.body = << >>

\* C11: when the match handler has returned without its hook having answered
\* 304, the underlying writer holds exactly the downstream response: one
\* WriteHeader with the status the downstream recorded (200 if none), the
\* bytes it wrote in order, and the headers it set -- for every downstream
\* behaviour, also one that sets a status and writes no body.
C11_NoMatchPassesThrough ==
    (f = "match" /\ pc = "done"
       /\ \A k \in 1..Len(hookLog) : hookLog[k].out # Returns(StatusNotModified)) =>
        /\ w.calls = <<Normalized(recorded)>>
        /\ w.body = nextBytes
        /\ w.header = nextHeader

\* C12: in BeforeHeaders mode the hook has run exactly once, and has returned,
\* before the downstream handler does anything; everything the downstream
\* handler does reaches the underlying writer as given, and the value the hook
\* returned is not written as a status.
C12_BeforeHeadersHookFirst ==
    (rm = BeforeHeaders /\ pc \in {"next", "done"}) =>
        /\ Len(hookLog) = 1
        /\ Positions("hook") = {1}
        /\ hookLog[1].committed = 0
        /\ hookLog[1].sent = << >>
        /\ w.calls = nextCodes
        /\ w.body = nextBytes

C12_Witness ==
    /\ rm = BeforeHeaders
    /\ pc = "done"
    /\ f = "generic"
    /\ hookLog[1].out = Returns(StatusCreated)
    /\ w.calls = <<StatusNoContent>>
    /\ Len(w.body) >= 1

\* C13: in BeforeHeaders mode the response given to the ETagFunc or
\* LastModifiedFunc is nil.
C13_NilViewBeforeHeaders ==
    (rm = BeforeHeaders /\ f \in {"etag", "lastmod"}) =>
        \A k \in 1..Len(hookLog) : hookLog[k].view = "nil"

\* C14: for every ETag e whose Tag holds no double quote, weak or not,
\* eTagFromString(e.String()) returns (e, true).
C14_RoundTrip ==
    (et.op = "roundtrip" /\ pc = "returned"
       /\ \A i \in 1..Len(et.e.Tag) : et.e.Tag[i] # DQ) =>
        et.parsed = [panic |-> FALSE, ok |-> TRUE, e |-> et.e]

C14_Witness ==
    /\ et.op = "roundtrip"
    /\ pc = "returned"
    /\ et.e = [Tag |-> <<"W", "/", "a">>, Weak |-> TRUE]
    /\ et.str = <<"W", "/", DQ, "W", "/", "a", DQ>>
    /\ et.parsed = [panic |-> FALSE, ok |-> TRUE, e |-> et.e]

\* C15: eTagFromString returns ok=false, and returns normally, for every
\* string that after an optional leading W/ is not an opening double quote, a
\* content, and a separate closing double quote.
C15_RejectsUnquoted ==
    (et.op = "parse" /\ pc = "returned"
       /\ \E rest \in {IF HasPrefix(et.s, <<"W", "/">>)
                       THEN SubSeq(et.s, 3, Len(et.s)) ELSE et.s} :
             ~(Len(rest) >= 2 /\ rest[1] = DQ /\ rest[Len(rest)] = DQ)) =>
        et.parsed = NoParse

\* C16: e.equal(e2, weak) is true exactly when the Tag strings are equal and,
\* under strong comparison, neither tag is weak; the relation is symmetric,
\* weak comparison is reflexive, and a weak tag is not strongly equal to
\* itself.
C16_Equality ==
    (et.op = "equal" /\ pc = "returned") =>
        /\ et.eq = (IF et.weakComparison THEN et.e.Tag = et.e2.Tag
                    ELSE ~et.e.Weak /\ ~et.e2.Weak /\ et.e.Tag = et.e2.Tag)
        /\ et.eqRev = et.eq
        /\ et.weakComparison => et.eqSelf
        /\ (~et.weakComparison /\ et.e.Weak) => ~et.eqSelf

C16_Witness ==
    /\ et.op = "equal"
    /\ pc = "returned"
    /\ ~et.weakComparison
    /\ ~et.e.Weak /\ et.e2.Weak
    /\ et.e.Tag = et.e2.Tag /\ Len(et.e.Tag) >= 1
    /\ ~et.eq /\ ~et.eqRev /\ et.eqSelf

\* C17: the hooks of ETagHandler and LastModifiedHandler return the status
\* they were given; when the caller's function returned ok they set ETag to
\* the quoted tag (W/ first when weak), or Last-Modified to the RFC 1123 date
\* in GMT, and change no other header; when it returned not ok they change no
\* header at all.
C17_EmitSetsOnlyWhenOk ==
    f \in {"etag", "lastmod"} =>
        /\ \A k \in 1..Len(hookLog) :
              /\ hookLog[k].out = Returns(hookLog[k].arg)
              /\ hookLog[k].after =
                    IF ~hookLog[k].by.ok THEN hookLog[k].header
                    ELSE IF f = "etag"
                         THEN [hookLog[k].header EXCEPT !["ETag"] =
                                 (IF hookLog[k].by.e.Weak THEN <<"W", "/">> ELSE << >>)
                                    \o <<DQ>> \o hookLog[k].by.e.Tag \o <<DQ>>]
                         ELSE [hookLog[k].header EXCEPT !["Last-Modified"] =
                                 <<"Mon", DateTimes[hookLog[k].by.lm], "GMT">>]
        /\ (rm = AfterResponse /\ pc = "done" /\ Len(hookLog) = 1) =>
              w.header = hookLog[1].after

C17_Witness ==
    /\ f = "etag"
    /\ rm = AfterResponse
    /\ pc = "done"
    /\ Len(hookLog) = 1
    /\ hookLog[1].by.ok /\ hookLog[1].by.e.Weak
    /\ hookLog[1].header["ETag"] # w.header["ETag"]
    /\ w.header["ETag"] = <<"W", "/", DQ, "a", DQ>>
    /\ w.calls = <<StatusNoContent>>

C19_NeverBelow100 ==
    /\ \A k \in 1..Len(hookLog) : hookLog[k].arg >= MinStatusCode
    /\ \A i \in 1..Len(w.calls) : w.calls[i] >= MinStatusCode

\* C19: in AfterHeaders and AfterResponse modes the hook receives the recorded
\* status with anything below 100 replaced by 200, and the underlying writer's
\* WriteHeader carries what the hook returned; in BeforeHeaders mode the hook
\* receives 0 and the downstream handler's status codes reach the underlying
\* writer as given.
C19_NormalizedWhenIntercepting ==
    /\ Intercepting =>
          /\ \A k \in 1..Len(hookLog) :
                /\ hookLog[k].arg >= MinStatusCode
                /\ hookLog[k].arg = Normalized(recorded)
          /\ \A i \in 1..Len(w.calls) :
                i <= Len(hookLog) /\ w.calls[i] = hookLog[i].out.code
    /\ (rm = BeforeHeaders /\ pc \in {"next", "done"}) =>
          /\ \A k \in 1..Len(hookLog) : hookLog[k].arg = 0
          /\ w.calls = nextCodes

C19_Witness ==
    /\ Intercepting
    /\ pc = "done"
    /\ recorded = MinStatusCode - 1
    /\ Len(hookLog) = 1
    /\ hookLog[1].arg = StatusOK
    /\ w.calls = <<StatusOK>>

\* C20 as stated: while the downstream handler runs, Body of the interceptor
\* is non-nil exactly in AfterResponse mode once a Write has occurred.
C20_NonNilIffWritten ==
    (Intercepting /\ pc = "next") =>
        (~Body(Cur, TRUE).nil <=> (rm = AfterResponse /\ nwrites >= 1))

\* C20: while the downstream handler runs, Body of the interceptor is the
\* bytes written so far in AfterResponse mode once at least one byte has been
\* written, and nil otherwise -- in AfterHeaders mode, before the first Write,
\* and after Writes of empty slices only; Body of any other writer is nil.
C20_BodyOrNil ==
    /\ (Intercepting /\ pc = "next") =>
          Body(Cur, TRUE) = IF rm = AfterResponse /\ Len(nextBytes) > 0
                            THEN [nil |-> FALSE, bytes |-> nextBytes]
                            ELSE NilBuf
    /\ pc \in {"next", "done"} => Body(Cur, FALSE) = NilBuf

C20_Witness ==
    /\ rm = AfterResponse
    /\ pc = "next"
    /\ nwrites >= 2
    /\ Len(nextBytes) = 1
    /\ Body(Cur, TRUE) = [nil |-> FALSE, bytes |-> nextBytes]

\* C21: with the match handler around an ETagHandler in AfterHeaders or
\* AfterResponse mode, when the request has ended and its If-None-Match is the
\* tag the ETagFunc returns (and the comparison in use accepts that tag), the
\* emit-ETag hook ran, then the match hook ran and saw the ETag header it
\* set, and the underlying writer was committed with 304 -- whatever the
\* downstream handler did.
C21_EmitThenMatch ==
    (pc = "done" /\ chain.rm \in {AfterHeaders, AfterResponse} /\ chain.p.ok
       /\ r.Header["If-None-Match"] = String(chain.p.e)
       /\ (weakETagComparison \/ ~chain.p.e.Weak)) =>
        /\ Len(hookLog) = 2
        /\ hookLog[1].view = "inner" /\ hookLog[2].view = "rw"
        /\ hookLog[2].header["ETag"] = String(chain.p.e)
        /\ w.calls = <<StatusNotModified>>

\* C22: in AfterHeaders mode the hook is invoked at most once and the
\* underlying writer's WriteHeader is called at most once, also when the hook
\* calls Write on the view it was given.
C22_NoReentry ==
    rm = AfterHeaders => (Len(hookLog) <= 1 /\ Len(w.calls) <= 1)

================================================================================
